---------------------------- MODULE Spec2Model ----------------------------
(***************************************************************************)
(* A model of parambuster.py: WebParameterFinder and its __main__ block.   *)
(* Strings are TLA+ strings; characters are one-character strings read     *)
(* with SubSeq.  A fetched HTML document is held in its parsed form (the   *)
(* anchors, forms, scripts and comments BeautifulSoup hands to the code).  *)
(***************************************************************************)
EXTENDS Integers, Sequences, FiniteSets, TLC

-----------------------------------------------------------------------------
(* Characters and string helpers (Python str methods used by the code).    *)

LowerStr == "abcdefghijklmnopqrstuvwxyz"
UpperStr == "ABCDEFGHIJKLMNOPQRSTUVWXYZ"
DigitStr == "0123456789"

Char(s, i) == SubSeq(s, i, i)
Chars(s) == {Char(s, i) : i \in 1..Len(s)}

Lowers == Chars(LowerStr)
Uppers == Chars(UpperStr)
Digits == Chars(DigitStr)
Letters == Lowers \cup Uppers

\* [a-zA-Z_$] and [a-zA-Z0-9_$]: the JavaScript-style identifier of lines 103, 201, 211
JsIdentStart == Letters \cup {"_", "$"}
JsIdentChar == JsIdentStart \cup Digits
\* [a-zA-Z_] and [a-zA-Z0-9_]: the identifier of lines 238, 243; also \w for \b
WordStart == Letters \cup {"_"}
WordChar == WordStart \cup Digits
\* [a-zA-Z0-9_-] of line 126
SlugChar == Letters \cup Digits \cup {"_", "-"}
\* [a-zA-Z0-9_\-./] of line 80
JsUrlChar == SlugChar \cup {".", "/"}
\* [a-zA-Z0-9_.-] of line 238
ValueChar == SlugChar \cup {"."}
Quotes == {"\"", "'"}
Spaces == {" ", "\n", "\t"}

MinOf(S) == CHOOSE x \in S : \A y \in S : x <= y

\* first index >= i whose character is not in class C (Len(s)+1 if none)
RunEnd(s, i, C) ==
    LET bad == {k \in i..Len(s) : Char(s, k) \notin C}
    IN  IF bad = {} THEN Len(s) + 1 ELSE MinOf(bad)

\* first index >= i whose character is in class C (0 if none): str.find
FindChar(s, i, C) ==
    LET hit == {k \in i..Len(s) : Char(s, k) \in C}
    IN  IF hit = {} THEN 0 ELSE MinOf(hit)

\* last index whose character is in class C (0 if none): str.rfind
RFindChar(s, C) ==
    LET hit == {k \in 1..Len(s) : Char(s, k) \in C}
    IN  IF hit = {} THEN 0 ELSE CHOOSE x \in hit : \A y \in hit : y <= x

StartsWith(s, p) == Len(s) >= Len(p) /\ SubSeq(s, 1, Len(p)) = p
StartsWithAt(s, i, p) == Len(s) >= i + Len(p) - 1 /\ SubSeq(s, i, i + Len(p) - 1) = p
EndsWith(s, p) == Len(s) >= Len(p) /\ SubSeq(s, Len(s) - Len(p) + 1, Len(s)) = p
From(s, i) == SubSeq(s, i, Len(s))

LowerChar(c) ==
    IF c \in Uppers
    THEN Char(LowerStr, CHOOSE i \in 1..Len(UpperStr) : Char(UpperStr, i) = c)
    ELSE c

RECURSIVE Lower(_)
Lower(s) == IF s = "" THEN "" ELSE LowerChar(Char(s, 1)) \o Lower(From(s, 2))

\* str.isdigit on the ASCII strings of the model: non-empty and every character a digit
IsDigit(s) == s /= "" /\ \A i \in 1..Len(s) : Char(s, i) \in Digits

\* str.split(sep) for a one-character separator
RECURSIVE Split(_, _)
Split(s, sep) ==
    LET k == FindChar(s, 1, {sep})
    IN  IF k = 0 THEN <<s>>
        ELSE <<SubSeq(s, 1, k - 1)>> \o Split(From(s, k + 1), sep)

NonEmpty(t) == t /= ""

SeqToSet(q) == {q[i] : i \in 1..Len(q)}

RECURSIVE Join(_, _)
Join(q, sep) ==
    IF q = <<>> THEN ""
    ELSE IF Len(q) = 1 THEN q[1]
    ELSE q[1] \o sep \o Join(Tail(q), sep)

-----------------------------------------------------------------------------
(* urllib.parse as the code uses it: urlparse (lines 44, 95), parse_qs     *)
(* (line 45) and urljoin (lines 69, 74, 85).                               *)

SchemeChar == Letters \cup Digits \cup {"+", "-", "."}
UsesRelative == {"http", "https", "ftp", "file", "ws", "wss"}

\* urlsplit's scheme rule: the text before the first ':' when it is made of scheme
\* characters and starts with a letter
SchemeLen(u) ==
    LET i == FindChar(u, 1, {":"})
    IN  IF i > 1 /\ Char(u, 1) \in Letters /\ RunEnd(u, 1, SchemeChar) = i
        THEN i - 1 ELSE 0

\* urlsplit: "Invalid IPv6 URL" when the netloc holds one bracket without the other
InvalidNetloc(netloc) == ("[" \in Chars(netloc)) /= ("]" \in Chars(netloc))

\* the text of s before its first character of class C (all of s if there is none)
Before(s, C) ==
    LET k == FindChar(s, 1, C)
    IN  IF k = 0 THEN s ELSE SubSeq(s, 1, k - 1)

\* the text of s after its first character of class C ("" if there is none)
After(s, C) ==
    LET k == FindChar(s, 1, C)
    IN  IF k = 0 THEN "" ELSE From(s, k + 1)

\* urlsplit, after the scheme is taken off: the netloc of '//netloc...' and what follows it
NetlocOf(rest) == IF StartsWith(rest, "//") THEN Before(From(rest, 3), {"/", "?", "#"}) ELSE ""
AfterNetloc(rest) == IF StartsWith(rest, "//") THEN From(rest, 3 + Len(NetlocOf(rest))) ELSE rest

UrlParts(scheme, rest) ==
    [scheme   |-> scheme,
     netloc   |-> NetlocOf(rest),
     path     |-> Before(AfterNetloc(rest), {"?", "#"}),
     query    |-> After(Before(AfterNetloc(rest), {"#"}), {"?"}),
     fragment |-> After(AfterNetloc(rest), {"#"}),
     invalid  |-> InvalidNetloc(NetlocOf(rest))]

\* urlsplit(u, default_scheme): scheme, netloc, path, query, fragment, and whether
\* urlsplit raises ValueError on it
UrlSplit(u, default) ==
    UrlParts(IF SchemeLen(u) > 0 THEN Lower(SubSeq(u, 1, SchemeLen(u))) ELSE default,
             IF SchemeLen(u) > 0 THEN From(u, SchemeLen(u) + 2) ELSE u)

\* urlunsplit: the URL text of the five parts
UrlUnsplit(scheme, netloc, path, query, fragment) ==
    (IF scheme /= "" THEN scheme \o ":" ELSE "")
      \o (IF netloc /= "" THEN "//" \o netloc ELSE "")
      \o (IF netloc /= "" /\ path /= "" /\ ~StartsWith(path, "/") THEN "/" ELSE "")
      \o path
      \o (IF query /= "" THEN "?" \o query ELSE "")
      \o (IF fragment /= "" THEN "#" \o fragment ELSE "")

\* _splitparams: a path without the ';params' of its last segment
SplitParams(p) ==
    LET i == FindChar(p, IF RFindChar(p, {"/"}) = 0 THEN 1 ELSE RFindChar(p, {"/"}), {";"})
    IN  IF i = 0 THEN p ELSE SubSeq(p, 1, i - 1)

\* urlparse(u).path
UrlPath(u) == SplitParams(UrlSplit(u, "").path)

\* urljoin's removal of '.' and '..' segments
RECURSIVE ResolveDots(_, _)
ResolveDots(segments, acc) ==
    IF segments = <<>> THEN acc
    ELSE IF Head(segments) = ".." THEN
        ResolveDots(Tail(segments),
                    IF Len(acc) > 0 THEN SubSeq(acc, 1, Len(acc) - 1) ELSE acc)
    ELSE IF Head(segments) = "." THEN ResolveDots(Tail(segments), acc)
    ELSE ResolveDots(Tail(segments), Append(acc, Head(segments)))

\* a sequence without its last element when that element is not ""
DropFile(bp) == IF bp[Len(bp)] /= "" THEN SubSeq(bp, 1, Len(bp) - 1) ELSE bp

\* the inner segments of a merged path with the empty ones filtered out
DropInnerEmpty(q) ==
    IF Len(q) <= 2 THEN q
    ELSE <<q[1]>> \o SelectSeq(SubSeq(q, 2, Len(q) - 1), NonEmpty) \o <<q[Len(q)]>>

\* the resolved path of the merged segments
ResolvedPath(segments) ==
    LET joined == Join(IF segments[Len(segments)] \in {".", ".."}
                       THEN Append(ResolveDots(segments, <<>>), "")
                       ELSE ResolveDots(segments, <<>>), "/")
    IN  IF joined = "" THEN "/" ELSE joined

\* urljoin on the split base b and the split reference r
JoinParts(base, ref, b, r) ==
    IF r.scheme /= b.scheme \/ r.scheme \notin UsesRelative THEN ref
    ELSE IF r.netloc /= "" THEN
        UrlUnsplit(r.scheme, r.netloc, r.path, r.query, r.fragment)
    ELSE IF r.path = "" THEN
        UrlUnsplit(r.scheme, b.netloc, b.path,
                   IF r.query = "" THEN b.query ELSE r.query, r.fragment)
    ELSE UrlUnsplit(r.scheme, b.netloc,
                    ResolvedPath(IF StartsWith(r.path, "/") THEN Split(r.path, "/")
                                 ELSE DropInnerEmpty(DropFile(Split(b.path, "/"))
                                                       \o Split(r.path, "/"))),
                    r.query, r.fragment)

\* urljoin(base, ref) for a reference urlsplit accepts
UrlJoin(base, ref) ==
    IF base = "" THEN ref
    ELSE IF ref = "" THEN base
    ELSE JoinParts(base, ref, UrlSplit(base, ""), UrlSplit(ref, UrlSplit(base, "").scheme))

\* whether urljoin(base, ref) raises ValueError (urlsplit of either argument does)
UrlJoinRaises(base, ref) ==
    base /= "" /\ ref /= "" /\ (UrlSplit(base, "").invalid \/ UrlSplit(ref, "").invalid)

\* unquote of a query key or value as parse_qs applies it: '+' becomes a space
\* (the model's URLs hold no %XX escapes)
RECURSIVE UnquotePlus(_)
UnquotePlus(s) ==
    IF s = "" THEN ""
    ELSE (IF Char(s, 1) = "+" THEN " " ELSE Char(s, 1)) \o UnquotePlus(From(s, 2))

\* parse_qs(query) with its defaults (keep_blank_values=False, separator '&'): the
\* keys of the name=value fields whose value is not blank
ParseQsKeys(query) ==
    LET fields == SelectSeq(Split(query, "&"), NonEmpty)
        KeyOf(f) == LET k == FindChar(f, 1, {"="})
                    IN  UnquotePlus(IF k = 0 THEN f ELSE SubSeq(f, 1, k - 1))
        ValOf(f) == LET k == FindChar(f, 1, {"="})
                    IN  IF k = 0 THEN "" ELSE From(f, k + 1)
    IN  {KeyOf(fields[i]) : i \in {j \in 1..Len(fields) : ValOf(fields[j]) /= ""}}

-----------------------------------------------------------------------------
(* The regular expressions of the extraction passes, each matched the way  *)
(* re.match / re.findall / re.finditer scan: leftmost first, greedy, the   *)
(* next search starting where the last match ended.                        *)

\* \b before position i: the character before it is not a word character
BoundaryBefore(s, i) == i = 1 \/ Char(s, i - 1) \notin WordChar

\* line 80, js_url_pattern.finditer: group(1) of every quoted run of URL characters
RECURSIVE JsUrlMatches(_, _)
JsUrlMatches(s, i) ==
    IF i > Len(s) THEN {}
    ELSE LET j == RunEnd(s, i + 1, JsUrlChar)
         IN  IF Char(s, i) \in Quotes /\ j > i + 1 /\ j <= Len(s) /\ Char(s, j) \in Quotes
             THEN {SubSeq(s, i + 1, j - 1)} \cup JsUrlMatches(s, j + 1)
             ELSE JsUrlMatches(s, i + 1)

JsKeywords == {"var", "let", "const"}

\* line 201, first alternative at position i: <<end of match, group 1>> or <<0, "">>
JsAssignAt(s, i) ==
    LET kws   == {k \in JsKeywords : StartsWithAt(s, i, k)}
        k0    == IF kws /= {} THEN i + Len(CHOOSE k \in kws : TRUE)
                 ELSE IF BoundaryBefore(s, i) /\ StartsWithAt(s, i, "this.") THEN i + 5
                 ELSE 0
        a     == RunEnd(s, k0, Spaces)
        e     == RunEnd(s, a, JsIdentChar)
        q     == RunEnd(s, e, Spaces)
    IN  IF k0 > 0 /\ a <= Len(s) /\ Char(s, a) \in JsIdentStart
           /\ q <= Len(s) /\ Char(s, q) = "="
        THEN <<q, SubSeq(s, a, e - 1)>> ELSE <<0, "">>

\* line 201, second alternative at position i: <<end of match, group 2>> or <<0, "">>
JsKeyAt(s, i) ==
    LET e == RunEnd(s, i, JsIdentChar)
        c == RunEnd(s, e, Spaces)
        v == RunEnd(s, c + 1, Spaces)
    IN  IF Char(s, i) \in JsIdentStart /\ c <= Len(s) /\ Char(s, c) = ":"
           /\ v <= Len(s) /\ Char(s, v) \in Quotes \cup Digits
        THEN <<v, SubSeq(s, i, e - 1)>> ELSE <<0, "">>

\* line 201, re.findall: the identifiers captured by either alternative
RECURSIVE JsParamMatches(_, _)
JsParamMatches(s, i) ==
    IF i > Len(s) THEN {}
    ELSE LET m == IF JsAssignAt(s, i)[1] > 0 THEN JsAssignAt(s, i) ELSE JsKeyAt(s, i)
         IN  IF m[1] > 0 THEN {m[2]} \cup JsParamMatches(s, m[1] + 1)
             ELSE JsParamMatches(s, i + 1)

\* line 211, re.findall: the identifier of every name="..." in the script text
RECURSIVE JsNameAttrMatches(_, _)
JsNameAttrMatches(s, i) ==
    IF i > Len(s) THEN {}
    ELSE LET a == i + 6
             e == RunEnd(s, a, JsIdentChar)
         IN  IF StartsWithAt(s, i, "name=") /\ i + 5 <= Len(s) /\ Char(s, i + 5) \in Quotes
                /\ a <= Len(s) /\ Char(s, a) \in JsIdentStart
                /\ e <= Len(s) /\ Char(s, e) \in Quotes
             THEN {SubSeq(s, a, e - 1)} \cup JsNameAttrMatches(s, e + 1)
             ELSE JsNameAttrMatches(s, i + 1)

\* line 238, re.findall: the key of every key=value in a comment
RECURSIVE CommentKeyMatches(_, _)
CommentKeyMatches(s, i) ==
    IF i > Len(s) THEN {}
    ELSE LET e  == RunEnd(s, i, WordChar)
             q  == RunEnd(s, e, Spaces)
             v0 == RunEnd(s, q + 1, Spaces)
             v  == IF v0 <= Len(s) /\ Char(s, v0) \in Quotes THEN v0 + 1 ELSE v0
             ve == RunEnd(s, v, ValueChar)
             m  == IF ve <= Len(s) /\ Char(s, ve) \in Quotes THEN ve ELSE ve - 1
         IN  IF Char(s, i) \in WordStart /\ BoundaryBefore(s, i)
                /\ q <= Len(s) /\ Char(s, q) = "=" /\ ve > v
             THEN {SubSeq(s, i, e - 1)} \cup CommentKeyMatches(s, m + 1)
             ELSE CommentKeyMatches(s, i + 1)

\* line 243, re.findall: every identifier-shaped whole word of a comment
RECURSIVE CommentWords(_, _)
CommentWords(s, i) ==
    IF i > Len(s) THEN {}
    ELSE LET e == RunEnd(s, i, WordChar)
         IN  IF Char(s, i) \in WordStart /\ BoundaryBefore(s, i)
             THEN {SubSeq(s, i, e - 1)} \cup CommentWords(s, e)
             ELSE CommentWords(s, i + 1)

\* line 244
common_words ==
    {"this", "that", "the", "and", "or", "not", "for", "in", "with", "is", "of", "to",
     "a", "an", "on", "at", "by", "from", "as", "it", "he", "she", "we", "they", "you",
     "my", "your", "his", "her", "our", "their", "its", "up", "down", "left", "right",
     "true", "false", "null", "undefined"}

-----------------------------------------------------------------------------
(* The inputs of a run: the command line and what the server answers.      *)

\* the most items (anchors, forms, fields, scripts, comments) a fetched page holds
MaxItems == 2

\* sys.argv[1], when given
TargetURLs ==
    {"http://h/search?q=test",
     "http://h/p?a=1&b=2&a=3",
     "http://h/dir/?a=&b=2&token",
     "http://h/users/42"}

None == <<>>
Some(v) == <<v>>

Field(tag, type, name) == [tag |-> tag, type |-> type, name |-> name]

\* what a page can hold, in document order
ItemList ==
    << [kind |-> "a", v |-> "/users/42"],
       [kind |-> "a", v |-> "/widgets/42"],
       [kind |-> "a", v |-> "/css/style"],
       [kind |-> "a", v |-> "/api/v1"],
       [kind |-> "a", v |-> "/users/{id}"],
       [kind |-> "a", v |-> "/id"],
       [kind |-> "a", v |-> "/my-product"],
       [kind |-> "a", v |-> "http://["],
       [kind |-> "a", v |-> "/Orders/77/7"],
       [kind |-> "a", v |-> "/42/:slug"],
       [kind |-> "a", v |-> "/posts/hello-world"],
       [kind |-> "a", v |-> "img/logo.png?v=2"],
       [kind |-> "action", v |-> "/login"],
       [kind |-> "field", v |-> Field("input", Some("hidden"), Some("csrf_token"))],
       [kind |-> "field", v |-> Field("input", Some("text"), Some("q"))],
       [kind |-> "field", v |-> Field("input", Some("HIDDEN"), Some("token"))],
       [kind |-> "field", v |-> Field("textarea", None, Some("csrf_token"))],
       [kind |-> "field", v |-> Field("input", Some("hidden"), None)],
       [kind |-> "field", v |-> Field("select", Some("hidden"), Some("sel"))],
       [kind |-> "field", v |-> Field("button", Some("submit"), Some("go"))],
       [kind |-> "script", v |-> "const token = \"abc\";"],
       [kind |-> "script", v |-> "var u = '/items/123'; cfg = {q: 'a'};"],
       [kind |-> "script", v |-> ""],
       [kind |-> "comment", v |-> " debug: userId=5 "],
       [kind |-> "comment", v |-> " the token is q=1 "],
       [kind |-> "a", v |-> "/Gadgets/2024"] >>

\* the items the any-order runs draw from: a malformed link, a field, a script, a comment
AnyOrderItems == {8, 15, 21, 24}
AnyOrderURLs == {"http://h/search?q=test"}

RECURSIVE SubsetsUpTo(_, _)
SubsetsUpTo(S, k) ==
    IF k = 0 THEN {{}}
    ELSE LET P == SubsetsUpTo(S, k - 1)
         IN  P \cup {q \cup {x} : q \in P, x \in S}

\* response.text of an empty body
BlankDoc ==
    [blank |-> TRUE, anchors |-> <<>>, forms |-> <<>>, scripts |-> <<>>, comments |-> <<>>]

\* the parsed page holding the items with indices I: the fields share one form without
\* an action attribute, every "action" item is a form of its own with no fields
MkDoc(I) ==
    LET Pick(k) == LET idx == SelectSeq([i \in 1..Len(ItemList) |-> i],
                                        LAMBDA i : i \in I /\ ItemList[i].kind = k)
                   IN  [j \in 1..Len(idx) |-> ItemList[idx[j]].v]
        fields  == Pick("field")
        actions == Pick("action")
    IN  [blank    |-> FALSE,
         anchors  |-> Pick("a"),
         forms    |-> (IF fields = <<>> THEN <<>>
                       ELSE <<[action |-> None, elements |-> fields]>>)
                      \o [j \in 1..Len(actions) |->
                            [action |-> Some(actions[j]), elements |-> <<>>]],
         scripts  |-> Pick("script"),
         comments |-> Pick("comment")]

DocsOver(S) == {MkDoc(I) : I \in SubsetsUpTo(S, MaxItems)}
Docs == {BlankDoc} \cup DocsOver(1..Len(ItemList))

\* the outcomes of requests.get + raise_for_status (lines 32-33)
FetchErrors == {"ConnectionError", "Timeout", "HTTPError"}
Responses ==
    {[status |-> "ok", text |-> d] : d \in Docs}
      \cup {[status |-> e, text |-> BlankDoc] : e \in FetchErrors}

-----------------------------------------------------------------------------
(* The extraction passes as functions of the target URL and the document.  *)

QueryBucket   == "URL Query Parameters"
PathBucket    == "Potential Path/Route Parameters"
VisibleBucket == "Form Parameters (Visible)"
HiddenBucket  == "Form Parameters (Hidden)"
JsBucket      == "JavaScript-like Parameters"
CommentBucket == "Comment Parameters"
BucketNames ==
    {QueryBucket, PathBucket, VisibleBucket, HiddenBucket, JsBucket, CommentBucket}

\* lines 16-23
EmptyBuckets == [b \in BucketNames |-> {}]

\* `not self.html_content` is false: a document was fetched and is not the empty string
HasContent(html) == html /= None /\ ~html[1].blank

\* lines 44-46: the keys parse_qs gives for the target URL's query
QueryKeys(u) == ParseQsKeys(UrlSplit(u, "").query)

\* line 77 (and 197): the text of the script elements joined by newlines
ScriptContent(doc) == Join(doc.scripts, "\n")

\* lines 67-85: the references urljoin is called on
HarvestedRefs(doc) ==
    SeqToSet(doc.anchors)
      \cup {doc.forms[i].action[1] : i \in {j \in 1..Len(doc.forms) : doc.forms[j].action /= None}}
      \cup {f \in JsUrlMatches(ScriptContent(doc), 1) : Len(f) > 2 /\ ~StartsWith(f, "//")}

\* lines 69, 74, 85: some urljoin call raises ValueError
HarvestRaises(u, doc) == \E r \in HarvestedRefs(doc) : UrlJoinRaises(u, r)

\* lines 64-85
UrlsToAnalyze(u, doc) == {UrlJoin(u, r) : r \in HarvestedRefs(doc)}

\* line 96
PathSegments(url_str) == SelectSeq(Split(UrlPath(url_str), "/"), NonEmpty)

\* lines 103-105, Heuristic 1: the names the explicit-placeholder rule emits for a segment
ExplicitPlaceholder(segment) ==
    LET start == IF Char(segment, 1) \in {"{", ":"} THEN 2 ELSE 1
        g     == SubSeq(segment, start, RunEnd(segment, start, JsIdentChar) - 1)
    IN  IF start <= Len(segment) /\ Char(segment, start) \in JsIdentStart /\ g /= segment
        THEN {g} ELSE {}

\* line 115
known_plurals == {"users", "products", "items", "posts", "orders"}

\* Heuristic 2 without the length test: single digits count as IDs too
NumericHintAnyLength(path_segments, i) ==
    LET segment == path_segments[i]
        prev_segment == Lower(path_segments[i - 1])
    IN  IF IsDigit(segment)
        THEN {IF i > 1 /\ prev_segment \in known_plurals THEN prev_segment \o "_id"
              ELSE IF i > 1 /\ EndsWith(prev_segment, "s")
                   THEN SubSeq(prev_segment, 1, Len(prev_segment) - 1) \o "_id"
              ELSE "id"}
        ELSE {}

\* lines 109-120, Heuristic 2: the hints the numeric rule emits for segment i
NumericHint(path_segments, i) ==
    LET segment == path_segments[i]
        prev_segment == Lower(path_segments[i - 1])
    IN  IF IsDigit(segment) /\ Len(segment) > 1
        THEN {IF i > 1 /\ prev_segment \in known_plurals THEN prev_segment \o "_id"
              ELSE IF i > 1 /\ EndsWith(prev_segment, "s")
                   THEN SubSeq(prev_segment, 1, Len(prev_segment) - 1) \o "_id"
              ELSE "id"}
        ELSE {}

\* line 125
common_static_segments ==
    {"api", "v1", "v2", "css", "js", "img", "images", "static", "assets", "admin",
     "dashboard", "new", "edit", "delete", "view", "index", "home"}

\* line 136
slug_parents == {"products", "articles", "posts", "categories", "users"}

\* Heuristic 3 without the stop-set test
SlugHintNoStopSet(path_segments, i) ==
    LET segment == path_segments[i]
        prev_segment == Lower(path_segments[i - 1])
    IN  IF /\ Chars(segment) \subseteq SlugChar
           /\ ~IsDigit(segment)
           /\ Len(segment) > 2
        THEN {IF i > 1 /\ prev_segment \in slug_parents
              THEN IF EndsWith(prev_segment, "s")
                   THEN SubSeq(prev_segment, 1, Len(prev_segment) - 1) \o "_slug"
                   ELSE prev_segment \o "_name"
              ELSE "slug"}
        ELSE {}

\* lines 126-139, Heuristic 3: the hints the slug rule emits for segment i
SlugHint(path_segments, i) ==
    LET segment == path_segments[i]
        prev_segment == Lower(path_segments[i - 1])
    IN  IF /\ Chars(segment) \subseteq SlugChar
           /\ ~IsDigit(segment)
           /\ Len(segment) > 2
           /\ Lower(segment) \notin common_static_segments
        THEN {IF i > 1 /\ prev_segment \in slug_parents
              THEN IF EndsWith(prev_segment, "s")
                   THEN SubSeq(prev_segment, 1, Len(prev_segment) - 1) \o "_slug"
                   ELSE prev_segment \o "_name"
              ELSE "slug"}
        ELSE {}

\* one "[+] Found ..." line: the heuristic, the name added, the segment (the i-th of the
\* URL's path, counted from 1) and the URL
PathEvent(h, name, segment, url_str, i) ==
    [heuristic |-> h, name |-> name, segment |-> segment, url |-> url_str, i |-> i]

\* lines 101-140: what the loop over the segments of one URL emits (and prints)
SegmentEvents(url_str, segs) ==
    UNION {
      {PathEvent("explicit", n, segs[i], url_str, i) : n \in ExplicitPlaceholder(segs[i])}
        \cup {PathEvent("numeric", n, segs[i], url_str, i) : n \in NumericHint(segs, i)}
        \cup {PathEvent("slug", n, segs[i], url_str, i) : n \in SlugHint(segs, i)}
      : i \in 1..Len(segs)}

\* lines 95-140 for one URL
PathEvents(url_str) == SegmentEvents(url_str, PathSegments(url_str))

\* lines 90-140: the events of the URLs not processed before
AnalyzeUrls(fresh) == UNION {PathEvents(u) : u \in fresh}

\* line 168: form.find_all(['input', 'select', 'textarea'])
FormFieldTags == {"input", "select", "textarea"}

\* line 173 without the test of the element kind: any type="hidden" counts as hidden
FieldBucketAnyTag(element) ==
    IF element.type = Some("hidden") THEN HiddenBucket ELSE VisibleBucket

\* line 173: the bucket a named form element goes to
FieldBucket(element) ==
    IF element.tag = "input" /\ element.type = Some("hidden")
    THEN HiddenBucket ELSE VisibleBucket

\* lines 164-179: one event per form element that has a truthy name, in document order
RECURSIVE FormEvents(_, _, _)
FormEvents(forms, f, e) ==
    IF f > Len(forms) THEN <<>>
    ELSE IF e > Len(forms[f].elements) THEN FormEvents(forms, f + 1, 1)
    ELSE LET element == forms[f].elements[e]
         IN  (IF /\ element.tag \in FormFieldTags
                 /\ element.name /= None
                 /\ element.name[1] /= ""
              THEN <<[bucket |-> FieldBucket(element), name |-> element.name[1],
                      form |-> f, element |-> e]>>
              ELSE <<>>)
             \o FormEvents(forms, f, e + 1)

\* lines 197-213
JsFound(doc) ==
    JsParamMatches(ScriptContent(doc), 1) \cup JsNameAttrMatches(ScriptContent(doc), 1)

\* lines 236-247
CommentFound(doc) ==
    UNION {CommentKeyMatches(doc.comments[i], 1)
             \cup {w \in CommentWords(doc.comments[i], 1) :
                     Len(w) > 2 /\ Lower(w) \notin common_words}
           : i \in 1..Len(doc.comments)}

\* lines 276-283: the sum of the per-bucket counts
RECURSIVE SumSizes(_, _)
SumSizes(fp, names) ==
    IF names = {} THEN 0
    ELSE LET b == CHOOSE x \in names : TRUE
         IN  Cardinality(fp[b]) + SumSizes(fp, names \ {b})

\* the total with the names deduplicated across the buckets
TotalDistinct(fp) == Cardinality(UNION {fp[b] : b \in BucketNames})

TotalFound(fp) == SumSizes(fp, BucketNames)

-----------------------------------------------------------------------------
(* The process: __main__ (lines 295-303) and find_all_parameters.          *)

VARIABLES
    argv,              \* sys.argv[1:2]: None or Some(URL)
    site,              \* what requests.get will find at the URL
    order,             \* the order find_all_parameters calls the five passes in
    url,               \* self.url
    html_content,      \* self.html_content: None or Some(document)
    found_parameters,  \* self.found_parameters
    processed_urls,    \* self.processed_urls
    pc,                \* "main", "run" (inside find_all_parameters) or "exit"
    todo,              \* the calls of find_all_parameters still to make
    exit_code,         \* None while running, then Some(code)
    raised,            \* the uncaught exception that ended the process, if any
    requests_made,     \* GET requests issued
    ran,               \* the calls of find_all_parameters made so far, in order
    path_log,          \* the "[+] Found ..." events of the path pass
    form_log,          \* the "[+] Hidden/Visible Form Parameter" events of the form pass
    total_found        \* the printed "Total Unique Parameters Discovered", if printed

vars == <<argv, site, order, url, html_content, found_parameters, processed_urls, pc,
          todo, exit_code, raised, requests_made, ran, path_log, form_log, total_found>>

Passes == {"query", "path", "form", "script", "comment"}

\* lines 260-264
CodeOrder == <<"query", "path", "form", "script", "comment">>

Orders == {o \in [1..5 -> Passes] : \A i, j \in 1..5 : o[i] = o[j] => i = j}

InitFields ==
    /\ url = ""
    /\ html_content = None
    /\ found_parameters = EmptyBuckets
    /\ processed_urls = {}
    /\ pc = "main"
    /\ todo = <<>>
    /\ exit_code = None
    /\ raised = None
    /\ requests_made = 0
    /\ ran = <<>>
    /\ path_log = {}
    /\ form_log = <<>>
    /\ total_found = None

Init ==
    /\ argv \in {None} \cup {Some(u) : u \in TargetURLs}
    /\ site \in Responses
    /\ order = CodeOrder
    /\ InitFields

\* the same program with the five passes called in an arbitrary order
InitAnyOrder ==
    /\ argv \in {None} \cup {Some(u) : u \in AnyOrderURLs}
    /\ site \in {[status |-> "ok", text |-> d] : d \in DocsOver(AnyOrderItems)}
    /\ order \in Orders
    /\ InitFields

\* lines 296-299: no URL argument
Usage ==
    /\ pc = "main"
    /\ argv = None
    /\ pc' = "exit"
    /\ exit_code' = Some(1)
    /\ UNCHANGED <<argv, site, order, url, html_content, found_parameters, processed_urls,
                   todo, raised, requests_made, ran, path_log, form_log, total_found>>

\* lines 301-303 and 13-24: construct the finder and enter find_all_parameters
Start ==
    /\ pc = "main"
    /\ argv /= None
    /\ url' = argv[1]
    /\ html_content' = None
    /\ found_parameters' = EmptyBuckets
    /\ processed_urls' = {}
    /\ todo' = <<"fetch">> \o order \o <<"report">>
    /\ pc' = "run"
    /\ UNCHANGED <<argv, site, order, exit_code, raised, requests_made, ran, path_log,
                   form_log, total_found>>

\* the process ends: sys.exit(code), an uncaught exception, or the end of the script
Exit(code, exc) ==
    /\ pc' = "exit"
    /\ exit_code' = Some(code)
    /\ raised' = exc

Called(step) == pc = "run" /\ todo /= <<>> /\ Head(todo) = step

\* the call returns and find_all_parameters goes on to the next one
Return(step) ==
    /\ todo' = Tail(todo)
    /\ ran' = Append(ran, step)
    /\ UNCHANGED <<pc, exit_code, raised>>

\* fetch_page with the failure swallowed: the error is printed and the run goes on
FetchFailedAndGoesOn ==
    /\ html_content' = None
    /\ Return("fetch")

\* lines 36-38: what fetch_page does on a RequestException
FetchFailed ==
    /\ Exit(1, None)
    /\ ran' = Append(ran, "fetch")
    /\ UNCHANGED <<todo, html_content>>

\* lines 26-38
fetch_page ==
    /\ Called("fetch")
    /\ requests_made' = requests_made + 1
    /\ IF site.status = "ok"
       THEN html_content' = Some(site.text) /\ Return("fetch")
       ELSE FetchFailed
    /\ UNCHANGED <<argv, site, order, url, found_parameters, processed_urls, path_log,
                   form_log, total_found>>

\* self.found_parameters[bucket].update(names)
Update(fp, bucket, names) == [fp EXCEPT ![bucket] = @ \cup names]

\* lines 40-51
extract_url_query_parameters ==
    /\ Called("query")
    /\ found_parameters' = Update(found_parameters, QueryBucket, QueryKeys(url))
    /\ Return("query")
    /\ UNCHANGED <<argv, site, order, url, html_content, processed_urls, requests_made,
                   path_log, form_log, total_found>>

\* lines 53-146
extract_potential_path_parameters ==
    /\ Called("path")
    /\ IF ~HasContent(html_content) THEN
           /\ Return("path")
           /\ UNCHANGED <<found_parameters, processed_urls, path_log>>
       ELSE IF HarvestRaises(url, html_content[1]) THEN
           /\ Exit(1, Some("ValueError"))
           /\ ran' = Append(ran, "path")
           /\ UNCHANGED <<todo, found_parameters, processed_urls, path_log>>
       ELSE
           /\ processed_urls' = processed_urls \cup UrlsToAnalyze(url, html_content[1])
           /\ path_log' = path_log \cup AnalyzeUrls(processed_urls' \ processed_urls)
           /\ found_parameters' =
                  Update(found_parameters, PathBucket,
                         {e.name : e \in AnalyzeUrls(processed_urls' \ processed_urls)})
           /\ Return("path")
    /\ UNCHANGED <<argv, site, order, url, html_content, requests_made, form_log,
                   total_found>>

\* the buckets after the form pass has added every event's name to its bucket
FormUpdate(fp, events) ==
    [b \in BucketNames |->
        fp[b] \cup {events[i].name : i \in {j \in 1..Len(events) : events[j].bucket = b}}]

\* lines 149-179
extract_form_parameters ==
    /\ Called("form")
    /\ IF HasContent(html_content)
       THEN LET events == FormEvents(html_content[1].forms, 1, 1)
            IN  /\ form_log' = form_log \o events
                /\ found_parameters' = FormUpdate(found_parameters, events)
       ELSE UNCHANGED <<found_parameters, form_log>>
    /\ Return("form")
    /\ UNCHANGED <<argv, site, order, url, html_content, processed_urls, requests_made,
                   path_log, total_found>>

\* lines 181-219
extract_js_parameters ==
    /\ Called("script")
    /\ found_parameters' =
          IF HasContent(html_content) /\ html_content[1].scripts /= <<>>
          THEN Update(found_parameters, JsBucket, JsFound(html_content[1]))
          ELSE found_parameters
    /\ Return("script")
    /\ UNCHANGED <<argv, site, order, url, html_content, processed_urls, requests_made,
                   path_log, form_log, total_found>>

\* lines 221-253
extract_comment_parameters ==
    /\ Called("comment")
    /\ found_parameters' =
          IF HasContent(html_content) /\ html_content[1].comments /= <<>>
          THEN Update(found_parameters, CommentBucket, CommentFound(html_content[1]))
          ELSE found_parameters
    /\ Return("comment")
    /\ UNCHANGED <<argv, site, order, url, html_content, processed_urls, requests_made,
                   path_log, form_log, total_found>>

\* display_results draining each set as it prints it
DisplayedAndDrained(fp) == [b \in BucketNames |-> {}]

\* the buckets display_results leaves behind: it only reads them (lines 277-286)
Displayed(fp) == fp

\* lines 267-292, then the end of the script: the process exits with code 0
display_results ==
    /\ Called("report")
    /\ total_found' = Some(TotalFound(found_parameters))
    /\ found_parameters' = Displayed(found_parameters)
    /\ todo' = Tail(todo)
    /\ ran' = Append(ran, "report")
    /\ Exit(0, None)
    /\ UNCHANGED <<argv, site, order, url, html_content, processed_urls, requests_made,
                   path_log, form_log>>

Next ==
    \/ Usage
    \/ Start
    \/ fetch_page
    \/ extract_url_query_parameters
    \/ extract_potential_path_parameters
    \/ extract_form_parameters
    \/ extract_js_parameters
    \/ extract_comment_parameters
    \/ display_results

Spec == Init /\ [][Next]_vars

SpecAnyOrder == InitAnyOrder /\ [][Next]_vars

-----------------------------------------------------------------------------
(* The claims.                                                             *)

FullRun == <<"fetch", "query", "path", "form", "script", "comment", "report">>

\* C1: when fetch_page fails, the process has issued exactly one request and is at exit
\* with code 1; no pass and no report has run, every bucket is empty and the document
\* is absent.
C1_FetchFailureIsFatal ==
    (site.status /= "ok" /\ requests_made > 0) =>
        /\ pc = "exit"
        /\ exit_code = Some(1)
        /\ requests_made = 1
        /\ ran = <<"fetch">>
        /\ found_parameters = EmptyBuckets
        /\ html_content = None
        /\ path_log = {}
        /\ form_log = <<>>
        /\ total_found = None

\* a failed fetch of a URL whose query string holds keys the query pass would report
C1_Witness ==
    /\ pc = "exit"
    /\ site.status = "Timeout"
    /\ requests_made = 1
    /\ QueryKeys(url) /= {}

\* C2: with a URL argument and a successful fetch, the process only ever ends with
\* exit code 0, after the seven steps in the fixed order, and no pass raises.
C2_RunsAllStepsAndExitsZero ==
    (pc = "exit" /\ argv /= None /\ site.status = "ok") =>
        /\ exit_code = Some(0)
        /\ raised = None
        /\ ran = FullRun

\* C3: every step leaves each bucket a superset of what it was.
C3_BucketsOnlyGrow ==
    [][\A b \in BucketNames : found_parameters[b] \subseteq found_parameters'[b]]_vars

\* a finished run in which the first and the last pass both found names
C3_Witness ==
    /\ pc = "exit"
    /\ ran = FullRun
    /\ found_parameters[QueryBucket] /= {}
    /\ found_parameters[CommentBucket] /= {}

\* the buckets a pass writes
C4_Owned(step) ==
    CASE step = "query"   -> {QueryBucket}
      [] step = "path"    -> {PathBucket}
      [] step = "form"    -> {VisibleBucket, HiddenBucket}
      [] step = "script"  -> {JsBucket}
      [] step = "comment" -> {CommentBucket}
      [] OTHER            -> {}

\* C4, first half: a pass changes only its own buckets and leaves the other buckets,
\* the target URL and the document unchanged.
C4_PassFrame ==
    [][(pc = "run" /\ todo /= <<>> /\ Head(todo) \in Passes) =>
          /\ url' = url
          /\ html_content' = html_content
          /\ \A b \in BucketNames \ C4_Owned(Head(todo)) :
                found_parameters'[b] = found_parameters[b]]_vars

\* the buckets after one pass that returns
C4_After(step, u, html, fp) ==
    CASE step = "query" -> Update(fp, QueryBucket, QueryKeys(u))
      [] step = "path" ->
            IF HasContent(html)
            THEN Update(fp, PathBucket, {e.name : e \in AnalyzeUrls(UrlsToAnalyze(u, html[1]))})
            ELSE fp
      [] step = "form" ->
            IF HasContent(html) THEN FormUpdate(fp, FormEvents(html[1].forms, 1, 1)) ELSE fp
      [] step = "script" ->
            IF HasContent(html) THEN Update(fp, JsBucket, JsFound(html[1])) ELSE fp
      [] step = "comment" ->
            IF HasContent(html) THEN Update(fp, CommentBucket, CommentFound(html[1])) ELSE fp

\* the buckets the process ends with when it calls the passes in the order o
RECURSIVE C4_FinalBuckets(_, _, _, _)
C4_FinalBuckets(o, u, html, fp) ==
    IF o = <<>> THEN fp
    ELSE IF Head(o) = "path" /\ HasContent(html) /\ HarvestRaises(u, html[1]) THEN fp
    ELSE C4_FinalBuckets(Tail(o), u, html, C4_After(Head(o), u, html, fp))

\* C4, second half: whatever order the five passes are called in, the process ends
\* with the bucket contents the code's own order ends with.
C4_AnyOrderSameBuckets ==
    (pc = "exit" /\ argv /= None) =>
        found_parameters = C4_FinalBuckets(CodeOrder, url, html_content, EmptyBuckets)

\* C5 as stated: no slug hint is emitted for a URL whose path is /css/style or /api/v1.
C5_NoSlugHint ==
    \A e \in path_log :
        e.heuristic = "slug" => UrlPath(e.url) \notin {"/css/style", "/api/v1"}

\* C5 as amended: a URL with path /api/v1 gets no slug hint; a URL with path
\* /css/style gets none for 'css' and exactly the hint 'slug' for 'style'.
C5_SlugHintOnlyForStyle ==
    \A u \in processed_urls :
        LET hints == {e \in path_log : e.heuristic = "slug" /\ e.url = u}
        IN  /\ UrlPath(u) = "/api/v1" => hints = {}
            /\ UrlPath(u) = "/css/style" =>
                  hints = {PathEvent("slug", "slug", "style", u, 2)}

\* both URLs were harvested and analysed in one run
C5_Witness ==
    /\ "path" \in SeqToSet(ran)
    /\ \E u \in processed_urls : UrlPath(u) = "/api/v1"
    /\ \E u \in processed_urls : UrlPath(u) = "/css/style"

\* a segment without one leading '{' or ':' and without one trailing '}'
C6_Stripped(segment) ==
    LET a == IF Char(segment, 1) \in {"{", ":"} THEN 2 ELSE 1
        z == IF EndsWith(segment, "}") THEN Len(segment) - 1 ELSE Len(segment)
    IN  SubSeq(segment, a, z)

\* C6: the explicit-placeholder heuristic emits a name only for a segment a delimiter
\* was stripped from, and the name is the identifier between the delimiters.
C6_OnlyStrippedPlaceholders ==
    \A e \in path_log :
        e.heuristic = "explicit" =>
            /\ C6_Stripped(e.segment) /= e.segment
            /\ e.name = C6_Stripped(e.segment)

\* the hint the claim gives for a numeric segment after the lower-cased segment prev
\* ("" when the numeric segment is the first)
C7_Hint(prev) ==
    CASE prev \in {"users", "products", "items", "posts", "orders"} -> prev \o "_id"
      [] prev \notin {"users", "products", "items", "posts", "orders"}
           /\ Len(prev) > 0 /\ Char(prev, Len(prev)) = "s" ->
             SubSeq(prev, 1, Len(prev) - 1) \o "_id"
      [] OTHER -> "id"

\* C7: for every segment of every analysed URL, the numeric heuristic emits exactly the
\* one hint the claim names when the segment is all digits and longer than one
\* character, and nothing otherwise; what it emits is in the Path/Route bucket.
C7_NumericHints ==
    \A u \in processed_urls :
        LET segs == SelectSeq(Split(UrlPath(u), "/"), NonEmpty)
        IN  \A i \in 1..Len(segs) :
              LET emitted == {e.name : e \in {x \in path_log :
                                x.heuristic = "numeric" /\ x.url = u /\ x.i = i}}
              IN  /\ emitted \subseteq found_parameters[PathBucket]
                  /\ emitted =
                       IF Chars(segs[i]) \subseteq Digits /\ Len(segs[i]) > 1
                       THEN {C7_Hint(IF i = 1 THEN "" ELSE Lower(segs[i - 1]))}
                       ELSE {}

\* /users/42 gave users_id and /widgets/42 gave widget_id in one run
C7_Witness ==
    /\ \E e \in path_log : e.heuristic = "numeric" /\ e.name = "users_id" /\ e.segment = "42"
    /\ \E e \in path_log : e.heuristic = "numeric" /\ e.name = "widget_id"
    /\ {"users_id", "widget_id"} \subseteq found_parameters[PathBucket]

\* the input/select/textarea elements of the fetched document's forms, as <<form, index>>
C8_Elements ==
    IF html_content = None THEN {}
    ELSE {fe \in UNION {{<<f, e>> : e \in 1..Len(html_content[1].forms[f].elements)}
                          : f \in 1..Len(html_content[1].forms)} :
            html_content[1].forms[fe[1]].elements[fe[2]].tag \in {"input", "select", "textarea"}}

C8_El(fe) == html_content[1].forms[fe[1]].elements[fe[2]]
C8_Named(fe) == C8_El(fe).name /= None /\ C8_El(fe).name[1] /= ""
C8_IsHiddenInput(fe) == C8_El(fe).tag = "input" /\ C8_El(fe).type = Some("hidden")

\* C8 as stated: once the form pass has run, the name of every named element is in
\* exactly one bucket, the hidden one iff the element is an input of type 'hidden'.
C8_NameInExactlyOneBucket ==
    "form" \in SeqToSet(ran) =>
        \A fe \in C8_Elements :
            C8_Named(fe) =>
                IF C8_IsHiddenInput(fe)
                THEN /\ C8_El(fe).name[1] \in found_parameters[HiddenBucket]
                     /\ C8_El(fe).name[1] \notin found_parameters[VisibleBucket]
                ELSE /\ C8_El(fe).name[1] \in found_parameters[VisibleBucket]
                     /\ C8_El(fe).name[1] \notin found_parameters[HiddenBucket]

\* C8 as amended: the form pass makes exactly one addition per named element, to the
\* hidden bucket iff the element is an input of type 'hidden' and to the visible bucket
\* otherwise, and none for an unnamed element; so each of the two buckets holds exactly
\* the names of its own kind of element, and a name is in both only when elements of
\* both kinds carry it.
C8_OneAdditionPerElement ==
    "form" \in SeqToSet(ran) =>
        /\ \A fe \in C8_Elements :
              LET adds == {k \in 1..Len(form_log) :
                              form_log[k].form = fe[1] /\ form_log[k].element = fe[2]}
              IN  IF C8_Named(fe)
                  THEN \E k \in adds :
                          /\ adds = {k}
                          /\ form_log[k].name = C8_El(fe).name[1]
                          /\ form_log[k].bucket =
                                IF C8_IsHiddenInput(fe) THEN HiddenBucket ELSE VisibleBucket
                  ELSE adds = {}
        /\ \A k \in 1..Len(form_log) : <<form_log[k].form, form_log[k].element>> \in C8_Elements
        /\ found_parameters[HiddenBucket] =
              {C8_El(fe).name[1] : fe \in {x \in C8_Elements : C8_Named(x) /\ C8_IsHiddenInput(x)}}
        /\ found_parameters[VisibleBucket] =
              {C8_El(fe).name[1] : fe \in {x \in C8_Elements : C8_Named(x) /\ ~C8_IsHiddenInput(x)}}

\* the hidden csrf_token input was filed as hidden beside a visible field
C8_Witness ==
    /\ "form" \in SeqToSet(ran)
    /\ "csrf_token" \in found_parameters[HiddenBucket]
    /\ "csrf_token" \notin found_parameters[VisibleBucket]
    /\ found_parameters[VisibleBucket] /= {}

\* the keys that occur in a query string: the text before the first '=' of every
\* non-empty '&'-separated field
C9_KeysOccurring(query) ==
    LET fields == Split(query, "&")
    IN  {Before(fields[i], {"="}) : i \in {j \in 1..Len(fields) : fields[j] /= ""}}

\* C9: after the query pass the query bucket is exactly the set of distinct keys that
\* occur in the target URL's query component.
C9_QueryBucketIsAllKeys ==
    "query" \in SeqToSet(ran) =>
        found_parameters[QueryBucket] = C9_KeysOccurring(After(url, {"?"}))

\* C10: the printed total is the sum of the sizes of the six buckets at report time.
C10_TotalIsSumOfBucketSizes ==
    total_found /= None =>
        total_found[1] =
            Cardinality(found_parameters[QueryBucket])
              + Cardinality(found_parameters[PathBucket])
              + Cardinality(found_parameters[VisibleBucket])
              + Cardinality(found_parameters[HiddenBucket])
              + Cardinality(found_parameters[JsBucket])
              + Cardinality(found_parameters[CommentBucket])

\* a report whose total exceeds the number of distinct names: some name is in two buckets
C10_Witness ==
    /\ total_found /= None
    /\ total_found[1] > Cardinality(UNION {found_parameters[b] : b \in BucketNames})

=============================================================================
